---- MODULE Spec2Model ----
(***************************************************************************)
(* The subscription engine of ContractWrapper (0x.js): one poll timer      *)
(* drives a block-and-log stream whose log events are fanned out to the    *)
(* registered filters' callbacks.                                          *)
(*                                                                         *)
(* JavaScript runs one handler at a time, so every action below is one     *)
(* handler run to its next await: a public call, a timer firing, or the    *)
(* continuation of a tick after a fetch completes.  Callbacks are user     *)
(* code; a callback is modelled by what it does when it is invoked.        *)
(***************************************************************************)
EXTENDS Integers, Sequences, FiniteSets, Bags

\* ------------------------------------------------------------------ bounds
MaxTokens == 2      \* subscribe calls in one behaviour (uuid tokens issued)
MaxTicks == 2       \* poll ticks that may be in flight together
WindowDepth == 2    \* blocks the chain view retains
MaxLogTopics == 3   \* topics of a log handed to the matcher on its own
MaxFilterTopics == 2    \* topic patterns of a filter handed to the matcher

\* ------------------------------------------------------------------ values
NoError == "none"
SubscriptionNotFound == "SUBSCRIPTION_NOT_FOUND"
NoAbiDecoder == "NO_ABI_DECODER"
TypeError == "TypeError"
CallbackError == "CALLBACK_THREW"
NodeUnavailable == "NodeUnavailable"
ReorgWindowExceeded == "ReorgWindowExceeded"

\* What a subscriber's callback does when it is invoked: return, throw,
\* unsubscribe its own token, unsubscribe the token issued after its own, or
\* unsubscribe all.
CallbackKinds == {"noop", "throw", "unsubSelf", "unsubNext", "unsubAll"}

Tokens == 1..MaxTokens

\* ------------------------------------------------------- the remote ledger
\* A fixed block tree: G <- B1 <- B2 and the competing branch G <- B1x <- B3.
Genesis == [hash |-> "G", parentHash |-> "0", number |-> 0]
Blocks ==
    { Genesis,
      [hash |-> "B1", parentHash |-> "G", number |-> 1],
      [hash |-> "B2", parentHash |-> "B1", number |-> 2],
      [hash |-> "B1x", parentHash |-> "G", number |-> 1],
      [hash |-> "B3", parentHash |-> "B1x", number |-> 2] }
Hashes == { b.hash : b \in Blocks }
BlockByHash(h) == CHOOSE b \in Blocks : b.hash = h

\* The event records of a block, in log-index order.
LogsOfBlock(h) ==
    CASE h = "G" -> << >>
      [] h \in {"B1", "B1x"} ->
            << [blockHash |-> h, logIndex |-> 0, address |-> "0xa", topics |-> <<"T0", "T1">>],
               [blockHash |-> h, logIndex |-> 1, address |-> "0xa", topics |-> <<"T1">>] >>
      [] OTHER ->
            << [blockHash |-> h, logIndex |-> 0, address |-> "0xa", topics |-> <<"T0">>] >>

\* The filters subscribers ask for: an address and topic patterns, a pattern
\* being the set of values it accepts.
Undefined == "undefined"
AnyTopic == [kind |-> "Any", values |-> {}]
Exactly(v) == [kind |-> "Exactly", values |-> {v}]
OneOf(S) == [kind |-> "OneOf", values |-> S]
FilterT0 == [address |-> "0xA", topics |-> << Exactly("T0") >>]
FilterT1 == [address |-> "0xa", topics |-> << Exactly("T1") >>]
Filters == {FilterT0, FilterT1}

\* The subscriptions callers make: a filter and what its callback does.
Subscriptions ==
    { << FilterT0, callback >> : callback \in CallbackKinds } \cup { << FilterT1, "noop" >> }

\* ----------------------------------------------------------------- helpers
Min(S) == CHOOSE x \in S : \A y \in S : x <= y

RECURSIVE SortedSeq(_)
SortedSeq(S) == IF S = {} THEN << >> ELSE << Min(S) >> \o SortedSeq(S \ {Min(S)})

\* _.keys of an object whose keys were inserted in token order.
Keys(obj) == SortedSeq(DOMAIN obj)

\* delete obj[key]
Delete(obj, key) == [k \in (DOMAIN obj) \ {key} |-> obj[k]]

\* obj[key] = value
Put(obj, key, value) == [k \in (DOMAIN obj) \cup {key} |-> IF k = key THEN value ELSE obj[k]]

EmptyObject == [k \in {} |-> 0]

Ret(m, e) == [m |-> m, err |-> e]

IdleTick == [pc |-> "idle", own |-> FALSE, attached |-> FALSE, plan |-> << >>]

\* A plan entry of a streamer the wrapper has deleted: its logs are still
\* fetched and reach no subscriber, so which block it names has no effect.
Unheard == [block |-> "G", retract |-> FALSE]

\* What is left of a plan whose streamer the wrapper has deleted: nothing,
\* or log fetches nobody hears, which may fail or return; how many there
\* are changes nothing but the number of pauses of the tick.
Detached(plan) == IF plan = << >> THEN << >> ELSE << Unheard >>

NoEvent == [defined |-> FALSE]

\* The bag of the g[t], t in bag B.
MapBag(B, g) ==
    [y \in { g[x] : x \in DOMAIN B } |->
        BagCardinality([x \in { z \in DOMAIN B : g[z] = y } |-> B[x]])]

\* ------------------------------------------------------ matcher and decoder
\* Addresses are hex strings; comparison ignores the case of the digits.
ToLowerCase(a) == CASE a = "0xA" -> "0xa" [] a = "0xB" -> "0xb" [] OTHER -> a

\* The topics zipped position by position: a position the log lacks is
\* compared as undefined, which a wildcard accepts.
matchesTopicsZipped(logTopics, filterTopics) ==
    \A i \in 1..Len(filterTopics) :
        \/ filterTopics[i].kind = "Any"
        \/ i <= Len(logTopics) /\ logTopics[i] \in filterTopics[i].values

matchesTopics(logTopics, filterTopics) ==
    \A i \in 1..Len(filterTopics) :
        /\ i <= Len(logTopics)
        /\ \/ filterTopics[i].kind = "Any"
           \/ logTopics[i] \in filterTopics[i].values

matchesFilter(log, filter) ==
    /\ filter.address # Undefined => ToLowerCase(log.address) = ToLowerCase(filter.address)
    /\ matchesTopics(log.topics, filter.topics)

\* The event signatures (topic 0) the decoder has a descriptor for.
KnownSignatures == {"T0"}

\* AbiDecoder.tryToDecodeLogOrNoop: the decoded log, or the log unchanged.
tryToDecodeLogOrNoop(log) ==
    [log |-> log,
     decoded |-> Len(log.topics) > 0 /\ log.topics[1] \in KnownSignatures]

\* ------------------------------------------------------------- chain view
Last(w) == w[Len(w)]
Front(w) == SubSeq(w, 1, Len(w) - 1)

\* The hashes of h and of its ancestors, h first.
RECURSIVE Ancestry(_)
Ancestry(h) ==
    IF h \notin Hashes THEN << >>
    ELSE << h >> \o Ancestry(BlockByHash(h).parentHash)

SeqToSet(s) == { s[i] : i \in 1..Len(s) }

\* Pop the tail of the window while it is not in the new head's ancestry.
RECURSIVE PopToAncestor(_, _, _)
PopToAncestor(w, anc, retracted) ==
    IF w = << >> \/ Last(w) \in anc THEN [window |-> w, retracted |-> retracted]
    ELSE PopToAncestor(Front(w), anc, Append(retracted, Last(w)))

Reverse(s) == [i \in 1..Len(s) |-> s[Len(s) + 1 - i]]

\* Keep the most recent WindowDepth blocks.
Trim(w) == IF Len(w) > WindowDepth THEN SubSeq(w, Len(w) - WindowDepth + 1, Len(w)) ELSE w

Entries(hashes, retract) == [i \in 1..Len(hashes) |-> [block |-> hashes[i], retract |-> retract]]

\* The observed head neither repeats nor directly extends the tail of the
\* window: reconciling it walks the head's ancestry, fetching blocks.
NeedsWalk(window, head) ==
    /\ window # << >>
    /\ head # Last(window)
    /\ BlockByHash(head).parentHash # Last(window)

\* reconcile that takes every new head for an extension of the tail.
reconcileAppendOnly(window, head) ==
    IF window # << >> /\ head = Last(window)
    THEN [err |-> NoError, window |-> window, plan |-> << >>]
    ELSE [err |-> NoError, window |-> Trim(Append(window, head)),
          plan |-> Entries(<< head >>, FALSE)]

\* reconcile(observedHead): the new window and the ordered plan, or a failure.
\* In a reorganization the tail is popped until it lies on the head's
\* ancestry.  A window popped to empty has still found the common ancestor
\* when its oldest block's parent lies on that ancestry; otherwise the
\* reorganization is deeper than the window.
reconcile(window, head) ==
    IF window = << >>
    THEN [err |-> NoError, window |-> << head >>, plan |-> Entries(<< head >>, FALSE)]
    ELSE IF head = Last(window)
    THEN [err |-> NoError, window |-> window, plan |-> << >>]
    ELSE IF BlockByHash(head).parentHash = Last(window)
    THEN [err |-> NoError, window |-> Trim(Append(window, head)),
          plan |-> Entries(<< head >>, FALSE)]
    ELSE LET anc == Ancestry(head)
             popped == PopToAncestor(window, SeqToSet(anc), << >>)
             base == IF popped.window # << >> THEN Last(popped.window)
                     ELSE BlockByHash(window[1]).parentHash
         IN  IF base \notin SeqToSet(anc)
             THEN [err |-> ReorgWindowExceeded, window |-> << >>, plan |-> << >>]
             ELSE LET newer == IF popped.window = << >> /\ head = base THEN << head >>
                               ELSE SelectSeq(Reverse(anc),
                                        LAMBDA h : BlockByHash(h).number
                                                       > BlockByHash(base).number)
                  IN  [err |-> NoError,
                       window |-> Trim(popped.window \o newer),
                       plan |-> Entries(popped.retracted, TRUE) \o Entries(newer, FALSE)]

\* ------------------------------------------------- ContractWrapper methods
\* The methods are operators on the record m of the wrapper's fields and
\* return Ret(fields afterwards, error thrown or NoError).

\* intervalUtils.setAsyncExcludingInterval: a new interval with its own lock.
setAsyncExcludingInterval(m) ==
    [m EXCEPT !.intervals = @ + 1, !.locked = FALSE]

\* intervalUtils.clearAsyncExcludingInterval: the interval fires no more; a
\* tick it started stays in flight, no longer holding the lock of any live
\* interval.
clearAsyncExcludingInterval(m) ==
    LET disown(t) == [t EXCEPT !.own = FALSE]
    IN  [m EXCEPT !.intervals = @ - 1, !.locked = FALSE,
                  !.tick = disown(@), !.ticks = MapBag(@, [t \in DOMAIN @ |-> disown(t)])]

\* _startBlockAndLogStream with a streamer whose chain view starts at the
\* ledger's first block instead of empty.
startBlockAndLogStreamAtGenesis(m) ==
    setAsyncExcludingInterval([m EXCEPT !.streamer = TRUE, !.window = << Genesis.hash >>])

startBlockAndLogStream(m) ==
    setAsyncExcludingInterval([m EXCEPT !.streamer = TRUE, !.window = << >>])

\* _stopBlockAndLogStream that leaves the interval set.
stopBlockAndLogStreamKeepsInterval(m) ==
    IF ~m.streamer THEN Ret(m, TypeError)
    ELSE LET detach(t) == [t EXCEPT !.attached = FALSE,
                                    !.plan = Detached(@)]
         IN  Ret([m EXCEPT !.streamer = FALSE, !.window = << >>,
                           !.tick = detach(@),
                           !.ticks = MapBag(@, [t \in DOMAIN @ |-> detach(t)])],
                 NoError)

\* Throws a TypeError when there is no streamer to unsubscribe from.  The
\* ticks reconciling the deleted streamer go on, their log events unheard.
stopBlockAndLogStream(m) ==
    IF ~m.streamer THEN Ret(m, TypeError)
    ELSE LET detach(t) == [t EXCEPT !.attached = FALSE,
                                    !.plan = Detached(@)]
         IN  Ret(clearAsyncExcludingInterval(
                    [m EXCEPT !.streamer = FALSE, !.window = << >>,
                              !.tick = detach(@),
                              !.ticks = MapBag(@, [t \in DOMAIN @ |-> detach(t)])]),
                 NoError)

\* subscribe with the guard on the streamer dropped: every call starts a stream.
subscribeAlwaysStarts(m, filter, callback) ==
    LET m1 == startBlockAndLogStream(m)
        filterToken == m1.nextToken
    IN  [m1 EXCEPT !.nextToken = @ + 1,
                   !.filters = Put(@, filterToken, filter),
                   !.filterCallbacks = Put(@, filterToken, callback)]

subscribe(m, filter, callback) ==
    LET m1 == IF ~m.streamer THEN startBlockAndLogStream(m) ELSE m
        filterToken == m1.nextToken
    IN  [m1 EXCEPT !.nextToken = @ + 1,
                   !.filters = Put(@, filterToken, filter),
                   !.filterCallbacks = Put(@, filterToken, callback)]

RECURSIVE unsubscribe(_, _, _)

RECURSIVE unsubscribeEach(_, _, _)
unsubscribeEach(m, filterTokens, err) ==
    IF filterTokens = << >> THEN Ret(m, NoError)
    ELSE LET r == unsubscribe(m, Head(filterTokens), err)
         IN  IF r.err # NoError THEN r
             ELSE unsubscribeEach(r.m, Tail(filterTokens), err)

\* unsubscribeAll that stops the stream itself once the registry is cleared.
unsubscribeAllThenStop(m) ==
    LET r == unsubscribeEach(m, Keys(m.filterCallbacks), NoError)
    IN  IF r.err # NoError THEN r ELSE stopBlockAndLogStream(r.m)

unsubscribeAll(m) ==
    unsubscribeEach(m, Keys(m.filterCallbacks), NoError)

\* The callback registered under filterToken is invoked with (err, event)
\* and does what its kind says; what it throws is the error returned.
callCallback(m, filterToken, err, event) ==
    LET callback == m.filterCallbacks[filterToken]
        m1 == [m EXCEPT !.calls = Append(@, [token |-> filterToken, err |-> err,
                                             event |-> event])]
    IN  CASE callback = "noop" -> Ret(m1, NoError)
          [] callback = "throw" -> Ret(m1, CallbackError)
          [] callback = "unsubSelf" -> unsubscribe(m1, filterToken, NoError)
          [] callback = "unsubNext" -> unsubscribe(m1, filterToken + 1, NoError)
          [] callback = "unsubAll" -> unsubscribeAll(m1)

\* _unsubscribe that does not test whether the token is registered.
unsubscribeUnchecked(m, filterToken, err) ==
    LET r == IF err # NoError /\ filterToken \in DOMAIN m.filterCallbacks
             THEN callCallback(m, filterToken, err, NoEvent)
             ELSE Ret(m, NoError)
    IN  IF r.err # NoError THEN r
        ELSE LET m2 == [r.m EXCEPT !.filters = Delete(@, filterToken),
                                   !.filterCallbacks = Delete(@, filterToken)]
             IN  IF DOMAIN m2.filters = {} THEN stopBlockAndLogStream(m2)
                 ELSE Ret(m2, NoError)

\* _unsubscribe that tells the callback of every removal, error or not.
unsubscribeNotifies(m, filterToken, err) ==
    IF filterToken \notin DOMAIN m.filters THEN Ret(m, SubscriptionNotFound)
    ELSE LET m1 == [m EXCEPT !.calls = Append(@, [token |-> filterToken, err |-> err,
                                                  event |-> NoEvent])]
             m2 == [m1 EXCEPT !.filters = Delete(@, filterToken),
                              !.filterCallbacks = Delete(@, filterToken)]
         IN  IF DOMAIN m2.filters = {} THEN stopBlockAndLogStream(m2)
             ELSE Ret(m2, NoError)

\* _unsubscribe that stops the stream on every removal.
unsubscribeAlwaysStops(m, filterToken, err) ==
    IF filterToken \notin DOMAIN m.filters THEN Ret(m, SubscriptionNotFound)
    ELSE LET r == IF err # NoError THEN callCallback(m, filterToken, err, NoEvent)
                  ELSE Ret(m, NoError)
         IN  IF r.err # NoError THEN r
             ELSE stopBlockAndLogStream(
                      [r.m EXCEPT !.filters = Delete(@, filterToken),
                                  !.filterCallbacks = Delete(@, filterToken)])

unsubscribe(m, filterToken, err) ==
    IF filterToken \notin DOMAIN m.filters THEN Ret(m, SubscriptionNotFound)
    ELSE LET r == IF err # NoError THEN callCallback(m, filterToken, err, NoEvent)
                  ELSE Ret(m, NoError)
         IN  IF r.err # NoError THEN r
             ELSE LET m2 == [r.m EXCEPT !.filters = Delete(@, filterToken),
                                        !.filterCallbacks = Delete(@, filterToken)]
                  IN  IF DOMAIN m2.filters = {} THEN stopBlockAndLogStream(m2)
                      ELSE Ret(m2, NoError)

RECURSIVE forEachFilter(_, _, _, _)

\* The loop over the filters left after the first callback it invokes.
forEachFilterUntilMatch(m, filterTokens, isRemoved, log) ==
    IF filterTokens = << >> THEN Ret(m, NoError)
    ELSE LET filterToken == Head(filterTokens)
         IN  IF filterToken \notin DOMAIN m.filters THEN Ret(m, TypeError)
             ELSE IF ~matchesFilter(log, m.filters[filterToken])
             THEN forEachFilter(m, Tail(filterTokens), isRemoved, log)
             ELSE IF ~m.abiDecoder THEN Ret(m, NoAbiDecoder)
             ELSE callCallback(m, filterToken, NoError,
                               [defined |-> TRUE, log |-> tryToDecodeLogOrNoop(log),
                                isRemoved |-> isRemoved])

\* _.forEach(this._filters, ...): the keys are those present when the loop
\* starts; each filter is read when its turn comes and is undefined if it
\* was deleted meanwhile, and matching against undefined throws.
forEachFilter(m, filterTokens, isRemoved, log) ==
    IF filterTokens = << >> THEN Ret(m, NoError)
    ELSE LET filterToken == Head(filterTokens)
         IN  IF filterToken \notin DOMAIN m.filters THEN Ret(m, TypeError)
             ELSE IF ~matchesFilter(log, m.filters[filterToken])
             THEN forEachFilter(m, Tail(filterTokens), isRemoved, log)
             ELSE IF ~m.abiDecoder THEN Ret(m, NoAbiDecoder)
             ELSE LET logEvent == [defined |-> TRUE, log |-> tryToDecodeLogOrNoop(log),
                                   isRemoved |-> isRemoved]
                      r == callCallback(m, filterToken, NoError, logEvent)
                  IN  IF r.err # NoError THEN r
                      ELSE forEachFilter(r.m, Tail(filterTokens), isRemoved, log)

\* _onLogStateChanged bound to the two log events the wrong way round.
onLogStateChangedSwapped(m, isRemoved, log) ==
    forEachFilter(m, Keys(m.filters), ~isRemoved, log)

onLogStateChanged(m, isRemoved, log) ==
    forEachFilter(m, Keys(m.filters), isRemoved, log)

RECURSIVE emitLogs(_, _, _)

\* The wrapper subscribed to the added logs only: removed logs are unheard.
emitLogsAddedOnly(m, isRemoved, logs) ==
    IF logs = << >> \/ isRemoved THEN Ret(m, NoError)
    ELSE IF ~m.tick.attached THEN emitLogs(m, isRemoved, Tail(logs))
    ELSE LET r == onLogStateChanged(m, isRemoved, Head(logs))
         IN  IF r.err # NoError THEN r
             ELSE emitLogs(r.m, isRemoved, Tail(logs))

\* The streamer of the running tick hands the logs of one block of the plan,
\* in order, to its log subscribers, as long as the wrapper is subscribed.
emitLogs(m, isRemoved, logs) ==
    IF logs = << >> THEN Ret(m, NoError)
    ELSE IF ~m.tick.attached THEN emitLogs(m, isRemoved, Tail(logs))
    ELSE LET r == onLogStateChanged(m, isRemoved, Head(logs))
         IN  IF r.err # NoError THEN r
             ELSE emitLogs(r.m, isRemoved, Tail(logs))

\* The catch block of _reconcileBlockAsync.
onReconcileError(m, err) ==
    unsubscribeEach(m, Keys(m.filterCallbacks), err)

\* The running tick is over: the interval's wrapper unlocks after fn()
\* returned, and never when fn() rejected.
endTick(m, rejected) ==
    [m EXCEPT !.locked = IF m.tick.own /\ ~rejected THEN FALSE ELSE @,
              !.tick = IdleTick]

\* --------------------------------------------------------------- EIP165Cache
\* IEIP165Cache.Status.
Unknown == "Unknown"
Unsupported == "Unsupported"
Supported == "Supported"
Status == {Unknown, Unsupported, Supported}

\* The interface ids of EIP165 and an interface id of some other standard.
INTERFACE_ID == "0x01ffc9a7"
INVALID_ID == "0xffffffff"
OtherInterface == "0x80ac58cd"
Interfaces == {INTERFACE_ID, OtherInterface}

\* The addresses the cache is asked about, and who sends the transactions.
Addrs == {"0xc1"}
Owner == "owner"
Senders == {Owner, "other"}

WordBits == 256         \* the width of the uint256 bit vector
MaxInterfaces == 256    \* the longest list query(address,bytes4[]) accepts
MaxListed == 2          \* the short interface lists tried

\* What is deployed at an address: nothing, a contract that reverts on
\* supportsInterface(bytes4), or a contract that answers true for the
\* interfaces in supports and false for the others.
NoCode == [kind |-> "NoCode", supports |-> {}]
Reverting == [kind |-> "Reverts", supports |-> {}]
Answering(S) == [kind |-> "Contract", supports |-> S]
TargetKinds ==
    {NoCode, Reverting}
        \cup { Answering(S) : S \in SUBSET {INTERFACE_ID, INVALID_ID, OtherInterface} }

\* The low-level call of supportsInterface(iface) with 30000 gas.  The
\* output is stored over the input: where the callee returns nothing the
\* word read back is the call data, which is not zero.
noThrowCall(target, iface) ==
    CASE target.kind = "NoCode" -> [success |-> TRUE, result |-> TRUE]
      [] target.kind = "Reverts" -> [success |-> FALSE, result |-> TRUE]
      [] target.kind = "Contract" -> [success |-> TRUE, result |-> iface \in target.supports]

\* IEIP165(addr).supportsInterface(iface) as a call of the contract type:
\* it reverts the transaction where there is no code or the callee reverts.
supportsInterface(target, iface) ==
    IF target.kind = "Contract"
    THEN [reverted |-> FALSE, result |-> iface \in target.supports]
    ELSE [reverted |-> TRUE, result |-> FALSE]

NoValue == "none"

\* The outcome of a call: the storage it leaves and what it returns, or the
\* storage it found when it reverts.
Out(st, ret) == [st |-> st, reverted |-> FALSE, ret |-> ret]
Revert(st) == [st |-> st, reverted |-> TRUE, ret |-> NoValue]

\* query(address addr, bytes4 iface)
query(st, addr, iface) ==
    LET status == st.cache[addr][iface]
        overridden == st.overrides[addr][iface]
        cached165 == st.cache[addr][INTERFACE_ID]
        call1 == noThrowCall(st.targets[addr], INTERFACE_ID)
        call2 == noThrowCall(st.targets[addr], INVALID_ID)
        eip165Supported == call1.success /\ call2.success /\ call1.result /\ ~call2.result
        eip165Status == IF cached165 # Unknown THEN cached165
                        ELSE IF eip165Supported THEN Supported ELSE Unsupported
        st1 == IF cached165 = Unknown
               THEN [st EXCEPT !.cache[addr][INTERFACE_ID] = eip165Status]
               ELSE st
        answer == supportsInterface(st.targets[addr], iface)
        tested == IF answer.result THEN Supported ELSE Unsupported
    IN  IF status # Unknown THEN Out(st, status)
        ELSE IF overridden # Unknown
        THEN Out([st EXCEPT !.cache[addr][iface] = overridden], overridden)
        ELSE IF cached165 = Unsupported THEN Out(st, Unknown)
        ELSE IF eip165Status = Supported
        THEN IF answer.reverted THEN Revert(st)
             ELSE Out([st1 EXCEPT !.cache[addr][iface] = tested], tested)
        ELSE Out(st1, Unknown)

\* A uint256 is the set of the positions of its one bits.
\* bitvector += bitvector in a word one bit short of the uint256.
DoubledNarrow(bitvector) == { b + 1 : b \in bitvector \ {WordBits - 2, WordBits - 1} }

\* bitvector += bitvector
Doubled(bitvector) == { b + 1 : b \in bitvector \ {WordBits - 1} }

\* bitvector |= 1
OrOne(bitvector) == bitvector \cup {0}

RECURSIVE queryLoop(_, _, _, _, _, _)

\* The iterations of the loop of query(address,bytes4[]) for i from first
\* down to last, in that order; interfaces[i] of the code is
\* interfaces[i + 1] here.  One iteration doubles the bit vector, queries
\* interfaces[i] and sets bit 0 if the answer is Supported; a longer run is
\* its upper half followed by its lower half.
queryLoop(st, addr, interfaces, first, last, bitvector) ==
    IF first < last THEN Out(st, bitvector)
    ELSE IF first = last
    THEN LET shifted == Doubled(bitvector)
             r == query(st, addr, interfaces[first + 1])
         IN  IF r.reverted THEN r
             ELSE Out(r.st, IF r.ret = Supported THEN OrOne(shifted) ELSE shifted)
    ELSE LET middle == (first + last) \div 2
             upper == queryLoop(st, addr, interfaces, first, middle + 1, bitvector)
         IN  IF upper.reverted THEN upper
             ELSE queryLoop(upper.st, addr, interfaces, middle, last, upper.ret)

\* query(address addr, bytes4[] interfaces)
queryInterfaces(st, addr, interfaces) ==
    IF Len(interfaces) > MaxInterfaces THEN Revert(st)
    ELSE LET r == queryLoop(st, addr, interfaces, Len(interfaces) - 1, 0, {})
         IN  IF r.reverted THEN Revert(st) ELSE r

\* refresh(address addr, bytes4 iface)
refresh(st, addr, iface) ==
    LET r == query([st EXCEPT !.cache[addr][iface] = Unknown], addr, iface)
    IN  IF r.reverted THEN Revert(st) ELSE Out(r.st, NoValue)

\* override(address addr, bytes4 iface, Status status), onlyOwner
override(st, sender, addr, iface, status) ==
    IF sender # Owner THEN Revert(st)
    ELSE Out([st EXCEPT !.overrides[addr][iface] = status], NoValue)

\* The storage of a cache just deployed.
NothingCached == [addr \in Addrs |-> [iface \in Interfaces |-> Unknown]]

NoCall == [op |-> "none"]

\* -------------------------------------------------------------- RequestQueue
MAX_QUEUE_SIZE == 500
MaxRequests == 3        \* calls of add in one behaviour
MaxReports == 1         \* failed transfers in one behaviour

\* The addresses that ask the faucet.
Recipients == {"0x1", "0x2"}

size(q) == Len(q)

\* isFull that lets the queue grow one entry past the limit.
isFullAbove(q) == size(q) > MAX_QUEUE_SIZE

isFull(q) == size(q) >= MAX_QUEUE_SIZE

\* add(recipientAddress): the queue afterwards and what is returned.
add(q, recipientAddress) ==
    IF isFull(q) THEN [queue |-> q, result |-> FALSE]
    ELSE [queue |-> Append(q, recipientAddress), result |-> TRUE]

\* A queue of n requests made earlier.
Backlog(n) == [k \in 1..n |-> IF k % 2 = 1 THEN "0x1" ELSE "0x2"]

\* ------------------------------------------------------------------- state
VARIABLES
    filters,            \* this._filters: token -> filter
    filterCallbacks,    \* this._filterCallbacks: token -> callback
    nextToken,          \* the next uuid filterUtils.generateUUID returns
    streamer,           \* this._blockAndLogStreamer is defined
    window,             \* the streamer's chain view, hashes, most recent last
    intervals,          \* the poll intervals set and not cleared
    locked,             \* the lock of the interval set last
    ticks,              \* the bag of _reconcileBlockAsync calls in flight
    abiDecoder,         \* this._abiDecoder is defined
    calls,              \* the callback invocations of the last handler
    thrown,             \* what the last handler threw to its caller
    matching,           \* a call of filterUtils.matchesFilter on its own
    cache,              \* EIP165Cache.cache: address -> interface -> Status
    overrides,          \* EIP165Cache.overrides: address -> interface -> Status
    targets,            \* what is deployed at each address the cache is asked about
    lastCall,           \* the last transaction sent to the EIP165Cache and its outcome
    queue,              \* RequestQueue.queue
    accepted,           \* the addresses add has accepted, in order
    processed,          \* the addresses handed to processNextRequestFireAndForgetAsync, in order
    transfer,           \* the transfer started last and how far it got
    reports,            \* the errors handed to errorReporter.reportAsync
    added,              \* the last call of add and what it returned
    requests            \* the calls of add made

wrapperVars == << filters, filterCallbacks, nextToken, streamer, window, intervals, locked,
                  ticks, abiDecoder, calls, thrown >>

contractVars == << cache, overrides, targets, lastCall >>

queueVars == << queue, accepted, processed, transfer, reports, added, requests >>

vars == << filters, filterCallbacks, nextToken, streamer, window, intervals, locked,
           ticks, abiDecoder, calls, thrown, matching,
           cache, overrides, targets, lastCall,
           queue, accepted, processed, transfer, reports, added, requests >>

\* The wrapper's fields as a handler finds them; tick is the tick the
\* handler continues (none for a caller's handler), ticks the others.
Running(t) ==
    [filters |-> filters, filterCallbacks |-> filterCallbacks, nextToken |-> nextToken,
     streamer |-> streamer, window |-> window, intervals |-> intervals, locked |-> locked,
     ticks |-> IF t = IdleTick THEN ticks ELSE ticks (-) SetToBag({t}),
     tick |-> t, abiDecoder |-> abiDecoder, calls |-> << >>]

This == Running(IdleTick)

Becomes(m) ==
    /\ filters' = m.filters
    /\ filterCallbacks' = m.filterCallbacks
    /\ nextToken' = m.nextToken
    /\ streamer' = m.streamer
    /\ window' = m.window
    /\ intervals' = m.intervals
    /\ locked' = m.locked
    /\ ticks' = IF m.tick = IdleTick THEN m.ticks ELSE m.ticks (+) SetToBag({m.tick})
    /\ abiDecoder' = m.abiDecoder
    /\ calls' = m.calls
    /\ UNCHANGED << matching, contractVars, queueVars >>

\* No call of matchesFilter on its own is under way.
NotMatching == [pc |-> "off"]

\* The EIP165Cache as deployed, nothing deployed at the addresses it is
\* asked about.
Deployed ==
    /\ cache = NothingCached
    /\ overrides = NothingCached
    /\ targets = [addr \in Addrs |-> NoCode]
    /\ lastCall = NoCall

NoTransfer == [state |-> "none"]
NotAdded == [called |-> FALSE]

\* The RequestQueue as constructed.
QueueConstructed ==
    /\ queue = << >>
    /\ accepted = << >>
    /\ processed = << >>
    /\ transfer = NoTransfer
    /\ reports = 0
    /\ added = NotAdded
    /\ requests = 0

Init ==
    /\ filters = EmptyObject
    /\ filterCallbacks = EmptyObject
    /\ nextToken = 1
    /\ streamer = FALSE
    /\ window = << >>
    /\ intervals = 0
    /\ locked = FALSE
    /\ ticks = EmptyBag
    /\ abiDecoder \in BOOLEAN
    /\ calls = << >>
    /\ thrown = NoError
    /\ matching = NotMatching
    /\ Deployed
    /\ QueueConstructed

InFlight == BagCardinality(ticks)

\* ----------------------------------------------------------------- actions
\* A caller subscribes.
Subscribe(filter, callback) ==
    /\ nextToken <= MaxTokens
    /\ Becomes(subscribe(This, filter, callback))
    /\ thrown' = NoError

\* A caller unsubscribes a token, issued or not.
Unsubscribe(filterToken) ==
    LET r == unsubscribe(This, filterToken, NoError)
    IN  /\ Becomes(r.m)
        /\ thrown' = r.err

UnsubscribeAll ==
    LET r == unsubscribeAll(This)
    IN  /\ Becomes(r.m)
        /\ thrown' = r.err

\* The live interval elapses while its previous tick is outstanding.
TimerSkip ==
    /\ intervals > 0
    /\ locked
    /\ Becomes(This)
    /\ thrown' = NoError

\* The live interval elapses and starts a tick, which asks for the head.
TimerFire ==
    /\ intervals > 0
    /\ ~locked
    /\ InFlight < MaxTicks
    /\ Becomes([This EXCEPT !.locked = TRUE,
                            !.tick = [pc |-> "fetchHead", own |-> TRUE,
                                      attached |-> FALSE, plan |-> << >>]])
    /\ thrown' = NoError

\* The running tick fails with err: the catch block runs, the tick is over
\* and rejects with what the catch block threw.
FailTick(m, err) ==
    LET r == onReconcileError(m, err)
    IN  /\ Becomes(endTick(r.m, r.err # NoError))
        /\ thrown' = r.err

\* The running tick returns without a failure.
FinishTick(m) ==
    /\ Becomes(endTick(m, FALSE))
    /\ thrown' = NoError

\* getBlockAsync(latest) of tick t fails.
HeadFetchFails(t) ==
    /\ t.pc = "fetchHead"
    /\ FailTick(Running(t), NodeUnavailable)

\* HeadFetched with a streamer that has forgotten the blocks it adopted.
HeadFetchedFreshStreamer(t, head) ==
    /\ t.pc = "fetchHead"
    /\ IF ~streamer THEN FinishTick(Running(t))
       ELSE LET rec == reconcile(<< >>, head)
                m == [Running(t) EXCEPT !.window = rec.window]
            IN  /\ Becomes([m EXCEPT !.tick.pc = "fetchLogs",
                                     !.tick.attached = TRUE,
                                     !.tick.plan = rec.plan])
                /\ thrown' = NoError

\* getBlockAsync(latest) of tick t returns head; the streamer, if there is
\* one, reconciles it.
HeadFetched(t, head) ==
    /\ t.pc = "fetchHead"
    /\ IF ~streamer THEN FinishTick(Running(t))
       ELSE LET rec == reconcile(window, head)
                m == [Running(t) EXCEPT !.window = rec.window]
            IN  IF rec.err # NoError THEN FailTick(m, rec.err)
                ELSE IF rec.plan = << >> THEN FinishTick(m)
                ELSE /\ Becomes([m EXCEPT !.tick.pc = "fetchLogs",
                                          !.tick.attached = TRUE,
                                          !.tick.plan = rec.plan])
                     /\ thrown' = NoError

\* getBlockAsync(latest) of tick t returns head, and a block fetch of the
\* streamer's walk along the head's ancestry fails.
AncestorFetchFails(t, head) ==
    /\ t.pc = "fetchHead"
    /\ streamer
    /\ NeedsWalk(window, head)
    /\ FailTick(Running(t), NodeUnavailable)

\* The log fetch for the next block of tick t's plan fails.
LogsFetchFails(t) ==
    /\ t.pc = "fetchLogs"
    /\ FailTick(Running(t), NodeUnavailable)

\* The log fetch for the next block of tick t's plan returns; the logs are
\* dispatched, and an exception thrown on the way fails the tick.
LogsFetched(t) ==
    /\ t.pc = "fetchLogs"
    /\ LET entry == Head(t.plan)
           r == emitLogs(Running(t), entry.retract, LogsOfBlock(entry.block))
           rest == IF r.m.tick.attached THEN Tail(t.plan) ELSE Detached(Tail(t.plan))
       IN  IF r.err # NoError THEN FailTick(r.m, r.err)
           ELSE IF rest = << >> THEN FinishTick(r.m)
           ELSE /\ Becomes([r.m EXCEPT !.tick.plan = rest])
                /\ thrown' = NoError

\* The tokens callers unsubscribe: the registered ones and, every unknown
\* token being refused alike, one that is not registered.
TokensTried ==
    LET unknown == Tokens \ DOMAIN filters
    IN  DOMAIN filters \cup (IF unknown = {} THEN {} ELSE {Min(unknown)})

Next ==
    \/ \E s \in Subscriptions : Subscribe(s[1], s[2])
    \/ \E filterToken \in TokensTried : Unsubscribe(filterToken)
    \/ UnsubscribeAll
    \/ TimerSkip
    \/ TimerFire
    \/ \E t \in BagToSet(ticks) : HeadFetchFails(t)
    \/ \E t \in BagToSet(ticks), head \in Hashes : HeadFetched(t, head)
    \/ \E t \in BagToSet(ticks), head \in Hashes : AncestorFetchFails(t, head)
    \/ \E t \in BagToSet(ticks) : LogsFetchFails(t)
    \/ \E t \in BagToSet(ticks) : LogsFetched(t)

Spec == Init /\ [][Next]_vars

\* ------------------------------------------------- the matcher on its own
\* The logs and the filters the matcher is tried on.
TopicValues == {"T0", "T1", "T2"}
Addresses == {"0xa", "0xA", "0xb"}
TopicPatterns == {AnyTopic, Exactly("T0"), Exactly("T1"), OneOf({"T0", "T1"})}

SeqsUpTo(S, n) == UNION { [1..k -> S] : k \in 0..n }

LogEntries ==
    { [blockHash |-> "B1", logIndex |-> 0, address |-> a, topics |-> ts] :
        a \in Addresses, ts \in SeqsUpTo(TopicValues, MaxLogTopics) }

FilterObjects ==
    { [address |-> a, topics |-> ps] :
        a \in {Undefined, "0xa", "0xA"}, ps \in SeqsUpTo(TopicPatterns, MaxFilterTopics) }

MatchInit ==
    /\ filters = EmptyObject
    /\ filterCallbacks = EmptyObject
    /\ nextToken = 1
    /\ streamer = FALSE
    /\ window = << >>
    /\ intervals = 0
    /\ locked = FALSE
    /\ ticks = EmptyBag
    /\ abiDecoder = TRUE
    /\ calls = << >>
    /\ thrown = NoError
    /\ matching \in { [pc |-> "input", log |-> log, filter |-> filter, result |-> FALSE] :
                         log \in LogEntries, filter \in FilterObjects }
    /\ Deployed
    /\ QueueConstructed

\* filterUtils.matchesFilter(log, filter) is called and returns.
MatchesFilter ==
    /\ matching.pc = "input"
    /\ matching' = [matching EXCEPT !.pc = "done",
                                    !.result = matchesFilter(matching.log, matching.filter)]
    /\ UNCHANGED << wrapperVars, contractVars, queueVars >>

MatchNext == MatchesFilter

MatchSpec == MatchInit /\ [][MatchNext]_vars

\* ------------------------------------------------- the EIP165Cache contract
\* The wrapper as constructed, no matcher call under way.
WrapperConstructed ==
    /\ filters = EmptyObject
    /\ filterCallbacks = EmptyObject
    /\ nextToken = 1
    /\ streamer = FALSE
    /\ window = << >>
    /\ intervals = 0
    /\ locked = FALSE
    /\ ticks = EmptyBag
    /\ abiDecoder = TRUE
    /\ calls = << >>
    /\ thrown = NoError
    /\ matching = NotMatching

\* The storage of the cache and the world it calls into.
Chain == [cache |-> cache, overrides |-> overrides, targets |-> targets]

\* The transaction call is mined with the outcome out.
Mined(call, out) ==
    /\ cache' = out.st.cache
    /\ overrides' = out.st.overrides
    /\ targets' = out.st.targets
    /\ lastCall' = [call EXCEPT !.reverted = out.reverted, !.returned = out.ret]
    /\ UNCHANGED << wrapperVars, matching, queueVars >>

Call(op, sender, addr, arg, status) ==
    [op |-> op, sender |-> sender, addr |-> addr, arg |-> arg, status |-> status,
     reverted |-> FALSE, returned |-> NoValue]

\* query, refresh and override are public and only override reads the sender.
Query(addr, iface) ==
    Mined(Call("query", Owner, addr, iface, Unknown), query(Chain, addr, iface))

QueryInterfaces(addr, interfaces) ==
    Mined(Call("queryInterfaces", Owner, addr, interfaces, Unknown),
          queryInterfaces(Chain, addr, interfaces))

Refresh(addr, iface) ==
    Mined(Call("refresh", Owner, addr, iface, Unknown), refresh(Chain, addr, iface))

Override(sender, addr, iface, status) ==
    Mined(Call("override", sender, addr, iface, status),
          override(Chain, sender, addr, iface, status))

\* What is deployed at addr changes: a contract is created there or
\* destroyed, or its answers change with its state.
TargetChanges(addr, target) ==
    /\ targets[addr] # target
    /\ targets' = [targets EXCEPT ![addr] = target]
    /\ lastCall' = NoCall
    /\ UNCHANGED << cache, overrides, wrapperVars, matching, queueVars >>

\* The interface lists of up to MaxListed entries.
ShortLists == SeqsUpTo(Interfaces, MaxListed)

CacheInit ==
    /\ WrapperConstructed
    /\ QueueConstructed
    /\ cache = NothingCached
    /\ overrides = NothingCached
    /\ targets \in [Addrs -> TargetKinds]
    /\ lastCall = NoCall

CacheNext ==
    \/ \E addr \in Addrs, iface \in Interfaces : Query(addr, iface)
    \/ \E addr \in Addrs, interfaces \in ShortLists : QueryInterfaces(addr, interfaces)
    \/ \E addr \in Addrs, iface \in Interfaces : Refresh(addr, iface)
    \/ \E sender \in Senders, addr \in Addrs, iface \in Interfaces, status \in Status :
          Override(sender, addr, iface, status)
    \/ \E addr \in Addrs, target \in TargetKinds : TargetChanges(addr, target)

CacheSpec == CacheInit /\ [][CacheNext]_vars

\* ------------------------------------- query(address,bytes4[]) on its own
\* The list of n interfaces that starts with first and alternates.
Alternating(n, first) ==
    [k \in 1..n |-> IF k % 2 = 1 THEN first
                    ELSE CHOOSE iface \in Interfaces : iface # first]

\* The lists about as long as the longest one accepted.
LongLists ==
    { Alternating(n, first) :
        n \in {MaxInterfaces - 1, MaxInterfaces, MaxInterfaces + 1}, first \in Interfaces }

\* A cache in any state of its storage, before one call.
BitsInit ==
    /\ WrapperConstructed
    /\ QueueConstructed
    /\ cache \in [Addrs -> [Interfaces -> Status]]
    /\ overrides \in [Addrs -> [Interfaces -> Status]]
    /\ targets \in [Addrs -> TargetKinds]
    /\ lastCall = NoCall

\* The one call: query(addr, interfaces).
QueryInterfacesOnce ==
    /\ lastCall = NoCall
    /\ \E addr \in Addrs, interfaces \in ShortLists \cup LongLists :
          QueryInterfaces(addr, interfaces)

BitsNext == QueryInterfacesOnce

BitsSpec == BitsInit /\ [][BitsNext]_vars

\* ------------------------------------------------------- the request queue
\* A caller asks for a transfer to recipientAddress.
Add(recipientAddress) ==
    /\ requests < MaxRequests
    /\ LET r == add(queue, recipientAddress)
       IN  /\ queue' = r.queue
           /\ added' = [called |-> TRUE, recipientAddress |-> recipientAddress,
                        result |-> r.result]
           /\ accepted' = IF r.result THEN Append(accepted, recipientAddress) ELSE accepted
    /\ requests' = requests + 1
    /\ UNCHANGED << processed, transfer, reports, wrapperVars, matching, contractVars >>

\* The interval callback taking the address added last: pop() for shift().
QueueIntervalPops ==
    /\ IF queue = << >>
       THEN UNCHANGED << queue, processed, transfer >>
       ELSE /\ queue' = Front(queue)
            /\ processed' = Append(processed, Last(queue))
            /\ transfer' = [state |-> "pending", recipientAddress |-> Last(queue)]
    /\ UNCHANGED << accepted, reports, added, requests, wrapperVars, matching, contractVars >>

\* The interval set by start() elapses: nothing happens on an empty queue,
\* otherwise the first address is shifted out and handed to
\* processNextRequestFireAndForgetAsync, which starts the transfer and is
\* not awaited.  Of the transfers under way the one started last is followed.
QueueInterval ==
    /\ IF queue = << >>
       THEN UNCHANGED << queue, processed, transfer >>
       ELSE /\ queue' = Tail(queue)
            /\ processed' = Append(processed, Head(queue))
            /\ transfer' = [state |-> "pending", recipientAddress |-> Head(queue)]
    /\ UNCHANGED << accepted, reports, added, requests, wrapperVars, matching, contractVars >>

\* transferAsync resolves: the success is logged.
TransferSent ==
    /\ transfer.state = "pending"
    /\ transfer' = [transfer EXCEPT !.state = "sent"]
    /\ UNCHANGED << queue, accepted, processed, reports, added, requests,
                    wrapperVars, matching, contractVars >>

\* transferAsync rejects: the error is logged and reported.
TransferFails ==
    /\ transfer.state = "pending"
    /\ reports < MaxReports
    /\ transfer' = [transfer EXCEPT !.state = "reported"]
    /\ reports' = reports + 1
    /\ UNCHANGED << queue, accepted, processed, added, requests,
                    wrapperVars, matching, contractVars >>

\* The queue as constructed, or with the requests of an earlier rush in it.
QueueInit ==
    /\ WrapperConstructed
    /\ Deployed
    /\ queue \in {<< >>, Backlog(MAX_QUEUE_SIZE - 1)}
    /\ accepted = queue
    /\ processed = << >>
    /\ transfer = NoTransfer
    /\ reports = 0
    /\ added = NotAdded
    /\ requests = 0

QueueNext ==
    \/ \E recipientAddress \in Recipients : Add(recipientAddress)
    \/ QueueInterval
    \/ TransferSent
    \/ TransferFails

QueueSpec == QueueInit /\ [][QueueNext]_vars

\* The queue from its construction on, the interval firing again and again.
FairQueueInit ==
    /\ WrapperConstructed
    /\ Deployed
    /\ QueueConstructed

FairQueueSpec == FairQueueInit /\ [][QueueNext]_vars /\ WF_vars(QueueInterval)

\* ------------------------------------------------------------- properties
\* The invocations among cs that hand tok an error.
ErrorCallsOf(cs, tok) ==
    { i \in 1..Len(cs) : cs[i].token = tok /\ cs[i].err # NoError }

\* The invocations among cs that hand tok the event (log, isRemoved).
EventCallsOf(cs, tok, log, isRemoved) ==
    { i \in 1..Len(cs) : /\ cs[i].token = tok
                         /\ cs[i].err = NoError
                         /\ cs[i].event.defined
                         /\ cs[i].event.log.log = log
                         /\ cs[i].event.isRemoved = isRemoved }

\* This step, a tick fails on a fetch or in the chain view: the registry of
\* the state the step starts in is the registry at the moment of failure.
TickFailsOnFetch ==
    \E t \in BagToSet(ticks) :
        \/ HeadFetchFails(t)
        \/ LogsFetchFails(t)
        \/ \E head \in Hashes :
              \/ AncestorFetchFails(t, head)
              \/ /\ streamer
                 /\ reconcile(window, head).err # NoError
                 /\ HeadFetched(t, head)

\* C1: at most one poll tick (_reconcileBlockAsync) is in flight at any
\* time, whatever the sequence of subscribe, unsubscribe, unsubscribeAll,
\* timer firings and fetch completions.
C1_AtMostOneTickInFlight == InFlight <= 1

\* C2: when a tick fails, every subscription active at the moment of failure
\* has its callback invoked exactly once with the error.
C2_EveryActiveSubscriptionGetsTheErrorOnce ==
    [][TickFailsOnFetch =>
          \A tok \in DOMAIN filterCallbacks : Cardinality(ErrorCallsOf(calls', tok)) = 1]_vars

\* C3: after a failed tick's error handling the registry is empty and the
\* poll timer is stopped, whatever the error callbacks do.
C3_FailedTickLeavesTheEngineIdle ==
    [][TickFailsOnFetch =>
          /\ DOMAIN filters' = {}
          /\ DOMAIN filterCallbacks' = {}
          /\ intervals' = 0
          /\ ~streamer']_vars

\* C4: for every log of a block a tick dispatches and every registered
\* subscription, the callback is invoked exactly once with (null, {log,
\* isRemoved}) if the filter matches the log and not at all if it does not,
\* isRemoved being true exactly for a retracted block.  Stated for
\* subscriptions whose callbacks leave the registry alone, so that the
\* subscriptions registered at dispatch time are those of the state the
\* step starts in.
C4_EveryMatchIsDispatchedExactlyOnce ==
    [][\A t \in BagToSet(ticks) :
          ( /\ LogsFetched(t)
            /\ t.attached
            /\ \A tok \in DOMAIN filterCallbacks : filterCallbacks[tok] \in {"noop", "throw"} )
          => LET entry == Head(t.plan)
                 logs == LogsOfBlock(entry.block)
             IN  \A tok \in DOMAIN filters : \A i \in 1..Len(logs) :
                    /\ Cardinality(EventCallsOf(calls', tok, logs[i], entry.retract))
                          = IF matchesFilter(logs[i], filters[tok]) THEN 1 ELSE 0
                    /\ EventCallsOf(calls', tok, logs[i], ~entry.retract) = {}]_vars

\* C5: unsubscribe(token) with a token that is not in the registry throws
\* SubscriptionNotFound, invokes no callback and leaves the registry, the
\* timer and the ticks as they were.
C5_UnknownTokenIsRejected ==
    [][\A tok \in Tokens \ DOMAIN filters :
          Unsubscribe(tok) =>
              /\ thrown' = SubscriptionNotFound
              /\ calls' = << >>
              /\ UNCHANGED << filters, filterCallbacks, nextToken, streamer, window,
                              intervals, locked, ticks >>]_vars

\* A failed unsubscribe of a token that was issued and is gone, beside a
\* subscription that stays.
C5_Witness ==
    /\ thrown = SubscriptionNotFound
    /\ calls = << >>
    /\ DOMAIN filters # {}
    /\ nextToken > Cardinality(DOMAIN filters) + 1

\* C6: unsubscribeAll() never throws, in every reachable state, and leaves
\* the registry empty and the poll timer stopped.
C6_UnsubscribeAllAlwaysSucceeds ==
    [][UnsubscribeAll =>
          /\ thrown' = NoError
          /\ DOMAIN filters' = {}
          /\ DOMAIN filterCallbacks' = {}
          /\ intervals' = 0
          /\ ~streamer']_vars

\* Both subscriptions are gone and the timer is stopped while a tick is
\* still in flight.
C6_Witness ==
    /\ nextToken = 3
    /\ DOMAIN filters = {}
    /\ intervals = 0
    /\ InFlight > 0
    /\ thrown = NoError

\* C7: unsubscribeAll() and unsubscribe(token) invoke no callback; a
\* callback is invoked only by a step of a tick, with an event and no error
\* or with an error and no event.
C7_OnlyTicksInvokeCallbacks ==
    [][/\ (UnsubscribeAll \/ \E tok \in Tokens : Unsubscribe(tok)) => calls' = << >>
       /\ calls' # << >> =>
            /\ \E t \in BagToSet(ticks) :
                  \/ HeadFetchFails(t)
                  \/ LogsFetchFails(t)
                  \/ LogsFetched(t)
                  \/ \E head \in Hashes : AncestorFetchFails(t, head) \/ HeadFetched(t, head)
            /\ \A i \in 1..Len(calls') :
                  (calls'[i].err = NoError) <=> calls'[i].event.defined]_vars

\* A subscription was removed by a call, one remains, no callback ran.
C7_Witness ==
    /\ nextToken = 3
    /\ Cardinality(DOMAIN filters) = 1
    /\ calls = << >>
    /\ thrown = NoError
    /\ intervals = 1

\* C8: subscribe starts the poll timer and the stream exactly when the
\* registry is empty, registers the filter and the callback under a fresh
\* token and changes no other subscription; there is never more than one
\* poll timer, and there is one exactly while the registry is not empty.
C8_SubscribeStartsOneTimer ==
    /\ [](intervals <= 1 /\ (intervals = 1 <=> DOMAIN filters # {}))
    /\ [][\A s \in Subscriptions :
             Subscribe(s[1], s[2]) =>
                 /\ nextToken \notin DOMAIN filters
                 /\ DOMAIN filters' = DOMAIN filters \cup {nextToken}
                 /\ DOMAIN filterCallbacks' = DOMAIN filters'
                 /\ filters'[nextToken] = s[1]
                 /\ filterCallbacks'[nextToken] = s[2]
                 /\ \A tok \in DOMAIN filters :
                       filters'[tok] = filters[tok] /\ filterCallbacks'[tok] = filterCallbacks[tok]
                 /\ intervals' = IF DOMAIN filters = {} THEN intervals + 1 ELSE intervals
                 /\ streamer'
                 /\ DOMAIN filters # {} => window' = window /\ locked' = locked
                 /\ thrown' = NoError]_vars

\* Two subscriptions share the one timer.
C8_Witness ==
    /\ Cardinality(DOMAIN filters) = 2
    /\ intervals = 1
    /\ streamer

\* C9: unsubscribe(token) of a registered token removes that subscription
\* and no other, and stops the poll timer if and only if the registry is
\* empty afterwards.
C9_UnsubscribeRemovesExactlyOne ==
    [][\A tok \in DOMAIN filters :
          Unsubscribe(tok) =>
              /\ thrown' = NoError
              /\ DOMAIN filters' = DOMAIN filters \ {tok}
              /\ DOMAIN filterCallbacks' = DOMAIN filterCallbacks \ {tok}
              /\ \A other \in DOMAIN filters' :
                    /\ filters'[other] = filters[other]
                    /\ filterCallbacks'[other] = filterCallbacks[other]
              /\ intervals = 1
              /\ intervals' = IF DOMAIN filters = {tok} THEN 0 ELSE 1
              /\ streamer' = (DOMAIN filters # {tok})
              /\ DOMAIN filters # {tok} => UNCHANGED << window, locked, ticks >>]_vars

\* One of two subscriptions was removed and the timer still runs, a tick in
\* flight.
C9_Witness ==
    /\ nextToken = 3
    /\ Cardinality(DOMAIN filters) = 1
    /\ intervals = 1
    /\ InFlight = 1
    /\ thrown = NoError

\* C10: when event callbacks unsubscribe registered tokens or unsubscribe
\* all while a block's logs are dispatched, the dispatch raises no error: no
\* subscriber is handed an error and the tick does not reject.
C10_DispatchToleratesUnsubscribe ==
    [][\A t \in BagToSet(ticks) :
          ( /\ LogsFetched(t)
            /\ abiDecoder
            /\ \A tok \in DOMAIN filterCallbacks :
                  \/ filterCallbacks[tok] \in {"noop", "unsubSelf", "unsubAll"}
                  \/ filterCallbacks[tok] = "unsubNext" /\ tok + 1 \in DOMAIN filters )
          => /\ thrown' = NoError
             /\ \A i \in 1..Len(calls') : calls'[i].err = NoError]_vars

\* C11: when an error callback invoked by a failed tick unsubscribes its own
\* token or unsubscribes all, the error handling raises nothing and leaves
\* the registry empty and the poll timer stopped.
C11_ErrorCallbackMayUnsubscribe ==
    [][( /\ TickFailsOnFetch
         /\ \A tok \in DOMAIN filterCallbacks :
               filterCallbacks[tok] \in {"noop", "unsubSelf", "unsubAll"}
         /\ \E tok \in DOMAIN filterCallbacks :
               filterCallbacks[tok] \in {"unsubSelf", "unsubAll"} )
       => /\ thrown' = NoError
          /\ DOMAIN filters' = {}
          /\ DOMAIN filterCallbacks' = {}
          /\ intervals' = 0
          /\ ~streamer']_vars

\* Tick t takes a step: a fetch of its returns or fails.
TickStep(t) ==
    \/ HeadFetchFails(t)
    \/ LogsFetchFails(t)
    \/ LogsFetched(t)
    \/ \E head \in Hashes : HeadFetched(t, head) \/ AncestorFetchFails(t, head)

\* C12: once the registry is empty the timer starts no tick, and a tick
\* still in flight is a no-op whether its fetches succeed or fail: it
\* invokes no callback, raises nothing and changes neither the registry
\* nor the chain view nor the timer.
C12_NoTickWithoutSubscriptions ==
    [][DOMAIN filters = {} =>
          /\ ~TimerFire
          /\ ~TimerSkip
          /\ \A t \in BagToSet(ticks) :
                TickStep(t) =>
                    /\ calls' = << >>
                    /\ thrown' = NoError
                    /\ UNCHANGED << filters, filterCallbacks, nextToken, streamer,
                                    window, intervals, locked >>
                    /\ InFlight' <= InFlight]_vars

\* The only subscription was removed while a tick was fetching the logs of
\* the blocks of its plan; the tick is still in flight.
C12_Witness ==
    /\ DOMAIN filters = {}
    /\ nextToken = 2
    /\ intervals = 0
    /\ \E t \in BagToSet(ticks) : t.pc = "fetchLogs" /\ ~t.attached

\* C13: a matched log that cannot be decoded, also for want of a decoder,
\* does not fail the tick: the subscriber is handed the log undecoded, no
\* subscription is handed an error or removed, and the other filters are
\* still served.  Stated for callbacks that only return.
C13_UndecodableLogsAreDelivered ==
    [][\A t \in BagToSet(ticks) :
          ( /\ LogsFetched(t)
            /\ t.attached
            /\ \A tok \in DOMAIN filterCallbacks : filterCallbacks[tok] = "noop" )
          => LET entry == Head(t.plan)
                 logs == LogsOfBlock(entry.block)
             IN  /\ thrown' = NoError
                 /\ \A i \in 1..Len(calls') : calls'[i].err = NoError
                 /\ filters' = filters
                 /\ filterCallbacks' = filterCallbacks
                 /\ \A tok \in DOMAIN filters : \A i \in 1..Len(logs) :
                       matchesFilter(logs[i], filters[tok])
                           => EventCallsOf(calls', tok, logs[i], entry.retract) # {}]_vars

\* C14: a reorganization deeper than the window fails the tick with the
\* window-exceeded condition: every active subscription is handed that
\* error exactly once, the registry is emptied and the poll timer stopped.
C14_DeepReorgFailsTheTick ==
    [][\A t \in BagToSet(ticks), head \in Hashes :
          ( /\ streamer
            /\ reconcile(window, head).err = ReorgWindowExceeded
            /\ HeadFetched(t, head) )
          => /\ \A tok \in DOMAIN filterCallbacks :
                   /\ Cardinality(ErrorCallsOf(calls', tok)) = 1
                   /\ \A i \in ErrorCallsOf(calls', tok) :
                         calls'[i].err = ReorgWindowExceeded
             /\ DOMAIN filters' = {}
             /\ intervals' = 0
             /\ ~streamer']_vars

\* C15: polling the head the chain view already ends with is idempotent:
\* the plan is empty, the chain view is unchanged, the tick ends without
\* fetching logs and no callback is invoked.
C15_RepeatedHeadIsANoOp ==
    [][\A t \in BagToSet(ticks), head \in Hashes :
          ( /\ streamer
            /\ window # << >>
            /\ head = Last(window)
            /\ HeadFetched(t, head) )
          => /\ reconcile(window, head).plan = << >>
             /\ window' = window
             /\ ticks' = ticks (-) SetToBag({t})
             /\ calls' = << >>
             /\ thrown' = NoError
             /\ UNCHANGED << filters, filterCallbacks, streamer, intervals >>]_vars

\* The subscription was served the logs of B1 by one tick, and a later tick
\* that polled B1 again has ended without invoking it.
C15_Witness ==
    /\ abiDecoder
    /\ window = << "B1" >>
    /\ DOMAIN filters = {1}
    /\ filters[1] = FilterT0
    /\ filterCallbacks[1] = "noop"
    /\ nextToken = 2
    /\ InFlight = 0
    /\ ~locked
    /\ calls = << >>
    /\ thrown = NoError

\* Each block of w but the first names the block before it as its parent.
Chained(w) ==
    \A i \in 1..(Len(w) - 1) : BlockByHash(w[i + 1]).parentHash = w[i]

\* C16: in every reachable state the blocks of the chain view's window are
\* parent-hash chained and at most WindowDepth, and after every successful
\* reconcile(observedHead) the window ends with observedHead.
C16_WindowIsAChainEndingAtTheHead ==
    /\ [](Chained(window) /\ Len(window) <= WindowDepth)
    /\ [][\A t \in BagToSet(ticks), head \in Hashes :
             ( /\ streamer
               /\ reconcile(window, head).err = NoError
               /\ HeadFetched(t, head) )
             => window' # << >> /\ Last(window') = head]_vars

\* A reorganization has replaced the branch of B1 by the branch B1x, B3 and
\* the tick is about to dispatch the logs of a retracted block.
C16_Witness ==
    /\ window = << "B1x", "B3" >>
    /\ \E t \in BagToSet(ticks) :
          t.pc = "fetchLogs" /\ t.attached /\ Head(t.plan).retract

\* The retract entries of a plan come first, most recent block first, and
\* its adopt entries after them, in ascending block order.
PlanOrdered(plan) ==
    \A i, j \in 1..Len(plan) :
        i < j =>
            /\ plan[j].retract => plan[i].retract
            /\ plan[i].retract /\ plan[j].retract =>
                  BlockByHash(plan[i].block).number > BlockByHash(plan[j].block).number
            /\ ~plan[i].retract /\ ~plan[j].retract =>
                  BlockByHash(plan[i].block).number < BlockByHash(plan[j].block).number

\* The plan of tick t is dispatched from its head: the events of the step
\* are logs of the first entry's block, removed exactly if it is retracted,
\* and the rest of the plan is what the tick goes on with.
DispatchedInPlanOrder(t) ==
    LET entry == Head(t.plan)
    IN  /\ \A i \in 1..Len(calls') :
              calls'[i].event.defined =>
                  /\ calls'[i].event.isRemoved = entry.retract
                  /\ calls'[i].event.log.log.blockHash = entry.block
        /\ (thrown' = NoError /\ streamer' /\ Tail(t.plan) # << >>) =>
              [t EXCEPT !.plan = Tail(@)] \in BagToSet(ticks')

\* C17: when the observed head is a new block whose parent is two blocks
\* behind the tail of the window, reconcile emits a retract entry for each
\* of the two discarded blocks, most recent first, then the adopt entry of
\* the head; in every plan the retract entries precede the adopt entries,
\* which ascend, and the removed-log dispatches follow that order.
C17_RetractsPrecedeAdopts ==
    /\ [](\A t \in BagToSet(ticks) : t.attached => PlanOrdered(t.plan))
    /\ [][\A t \in BagToSet(ticks), head \in Hashes :
             ( /\ streamer
               /\ Len(window) >= 2
               /\ head \notin SeqToSet(window)
               /\ BlockByHash(head).parentHash
                     = BlockByHash(window[Len(window) - 1]).parentHash
               /\ HeadFetched(t, head) )
             => /\ thrown' = NoError
                /\ [t EXCEPT !.pc = "fetchLogs", !.attached = TRUE,
                             !.plan = << [block |-> Last(window), retract |-> TRUE],
                                         [block |-> window[Len(window) - 1], retract |-> TRUE],
                                         [block |-> head, retract |-> FALSE] >>]
                      \in BagToSet(ticks')]_vars
    /\ [][\A t \in BagToSet(ticks) :
             (LogsFetched(t) /\ t.attached) => DispatchedInPlanOrder(t)]_vars

\* The removed logs of B2 have been dispatched; the removal of B1 and the
\* adoption of B1x are still to come, in that order.
C17_Witness ==
    /\ \E t \in BagToSet(ticks) :
          /\ t.pc = "fetchLogs"
          /\ t.attached
          /\ t.plan = << [block |-> "B1", retract |-> TRUE],
                         [block |-> "B1x", retract |-> FALSE] >>
    /\ \E i \in 1..Len(calls) :
          calls[i].event.defined /\ calls[i].event.isRemoved

\* C18: with the window holding exactly B1 (parent G) and B2 (parent B1)
\* and a polled head B3 whose parent B1x is a sibling of B1, reconcile does
\* not fail with window exceeded: the window becomes B1x, B3 and the tick
\* dispatches retract B2, retract B1, adopt B1x, adopt B3 in this order,
\* each entry's matching logs reaching the subscribers without an error
\* when the callbacks return.
C18_SiblingBranchIsResolved ==
    /\ [][\A t \in BagToSet(ticks) :
             ( /\ streamer
               /\ window = << "B1", "B2" >>
               /\ HeadFetched(t, "B3") )
             => /\ thrown' = NoError
                /\ calls' = << >>
                /\ window' = << "B1x", "B3" >>
                /\ [t EXCEPT !.pc = "fetchLogs", !.attached = TRUE,
                             !.plan = << [block |-> "B2", retract |-> TRUE],
                                         [block |-> "B1", retract |-> TRUE],
                                         [block |-> "B1x", retract |-> FALSE],
                                         [block |-> "B3", retract |-> FALSE] >>]
                      \in BagToSet(ticks')]_vars
    /\ [][\A t \in BagToSet(ticks) :
             ( /\ LogsFetched(t)
               /\ t.attached
               /\ abiDecoder
               /\ \A tok \in DOMAIN filterCallbacks : filterCallbacks[tok] = "noop" )
             => LET entry == Head(t.plan)
                    logs == LogsOfBlock(entry.block)
                IN  /\ DispatchedInPlanOrder(t)
                    /\ thrown' = NoError
                    /\ \A i \in 1..Len(calls') : calls'[i].err = NoError
                    /\ \A tok \in DOMAIN filters : \A i \in 1..Len(logs) :
                          matchesFilter(logs[i], filters[tok])
                              => EventCallsOf(calls', tok, logs[i], entry.retract) # {}]_vars

\* The removed log of B2 has reached a subscriber; retract B1, adopt B1x
\* and adopt B3 are still to come.
C18_Witness ==
    /\ window = << "B1x", "B3" >>
    /\ \E t \in BagToSet(ticks) :
          /\ t.pc = "fetchLogs"
          /\ t.attached
          /\ t.plan = << [block |-> "B1", retract |-> TRUE],
                         [block |-> "B1x", retract |-> FALSE],
                         [block |-> "B3", retract |-> FALSE] >>
    /\ \E i \in 1..Len(calls) :
          /\ calls[i].event.defined
          /\ calls[i].event.isRemoved
          /\ calls[i].event.log.log.blockHash = "B2"

\* The observed head directly extends the tail of the window, or is the
\* first head of an empty window.
Extends(head) ==
    window = << >> \/ BlockByHash(head).parentHash = Last(window)

\* C19: a tick whose head extends the previous head adopts that block and
\* nothing else: its plan is the one adopt entry of the head, and the
\* dispatch of an adopted block invokes every matching subscription
\* exactly once per matching log, never with isRemoved = true.  Stated for
\* the dispatches that succeed, of callbacks that leave the registry alone.
C19_ExtendingHeadsOnlyAdopt ==
    /\ [][\A t \in BagToSet(ticks), head \in Hashes :
             (streamer /\ Extends(head) /\ HeadFetched(t, head))
             => /\ thrown' = NoError
                /\ window' = Trim(Append(window, head))
                /\ [t EXCEPT !.pc = "fetchLogs", !.attached = TRUE,
                             !.plan = << [block |-> head, retract |-> FALSE] >>]
                      \in BagToSet(ticks')]_vars
    /\ [][\A t \in BagToSet(ticks) :
             ( /\ LogsFetched(t)
               /\ t.attached
               /\ ~Head(t.plan).retract
               /\ \A tok \in DOMAIN filterCallbacks : filterCallbacks[tok] \in {"noop", "throw"}
               /\ thrown' = NoError
               /\ \A i \in 1..Len(calls') : calls'[i].err = NoError )
             => LET logs == LogsOfBlock(Head(t.plan).block)
                IN  /\ \A i \in 1..Len(calls') :
                          calls'[i].event.defined /\ ~calls'[i].event.isRemoved
                    /\ \A tok \in DOMAIN filters : \A i \in 1..Len(logs) :
                          Cardinality(EventCallsOf(calls', tok, logs[i], FALSE))
                              = IF matchesFilter(logs[i], filters[tok]) THEN 1 ELSE 0]_vars

\* Two subscriptions have just been served the logs of B2, adopted on top
\* of B1 by a tick of its own.
C19_Witness ==
    /\ window = << "B1", "B2" >>
    /\ InFlight = 0
    /\ Cardinality(DOMAIN filters) = 2
    /\ \A tok \in DOMAIN filters :
          \E i \in 1..Len(calls) :
              /\ calls[i].token = tok
              /\ calls[i].event.defined
              /\ ~calls[i].event.isRemoved
              /\ calls[i].event.log.log.blockHash = "B2"

\* value satisfies the topic pattern: Any always, Exactly(v) by equality,
\* OneOf(set) by membership.
Satisfies(pattern, value) ==
    CASE pattern.kind = "Any" -> TRUE
      [] pattern.kind = "Exactly" -> pattern = Exactly(value)
      [] pattern.kind = "OneOf" -> value \in pattern.values

\* C20: matchesFilter(log, filter) is true exactly when the address
\* constraint, if set, holds and the log has, at every position of the
\* filter's topics, a topic that satisfies the pattern there; topics of the
\* log beyond the filter's are unconstrained, so [Exactly(T0)] matches
\* [T0, T1, T2] and not [T1], and the filter with no address and no topics
\* matches every log.
C20_MatcherFollowsThePatterns ==
    matching.pc = "done" =>
        LET log == matching.log
            filter == matching.filter
        IN  /\ matching.result <=>
                  /\ filter.address # Undefined =>
                        ToLowerCase(log.address) = ToLowerCase(filter.address)
                  /\ \A i \in 1..Len(filter.topics) :
                        /\ Len(log.topics) >= i
                        /\ Satisfies(filter.topics[i], log.topics[i])
            /\ (filter.address = Undefined /\ filter.topics = << Exactly("T0") >>) =>
                  /\ log.topics = << "T0", "T1", "T2" >> => matching.result
                  /\ log.topics = << "T1" >> => ~matching.result
            /\ (filter.address = Undefined /\ filter.topics = << >>) => matching.result

\* The filter [Exactly(T0)] was matched against a log with the topics
\* T0, T1, T2 and accepted it.
C20_Witness ==
    /\ matching.pc = "done"
    /\ matching.filter = [address |-> Undefined, topics |-> << Exactly("T0") >>]
    /\ matching.log.topics = << "T0", "T1", "T2" >>
    /\ matching.result

\* C21: a tick started in one polling session and still awaiting its head
\* fetch when the last subscription is removed never acts on a later
\* session: once a new subscribe has created a new block stream, the old
\* tick neither reconciles the head it fetched into the new stream nor hands
\* an error to the new session's subscriptions.
C21_OldTickLeavesTheNewSessionAlone ==
    [][\A t \in BagToSet(ticks), head \in Hashes :
          ( /\ t.pc = "fetchHead"
            /\ ~t.own
            /\ streamer
            /\ HeadFetched(t, head) \/ HeadFetchFails(t) )
          => /\ window' = window
             /\ calls' = << >>
             /\ filters' = filters
             /\ filterCallbacks' = filterCallbacks]_vars

\* C22: an exception thrown by a subscriber's event callback during dispatch
\* fails the tick: every subscription registered at that moment, the one
\* that threw included, is handed that exception exactly once as an error
\* and is removed, and the poll timer and the stream are stopped.
C22_ThrowingEventCallbackFailsTheTick ==
    [][\A t \in BagToSet(ticks) :
          LET entry == Head(t.plan)
              r == emitLogs(Running(t), entry.retract, LogsOfBlock(entry.block))
          IN  ( /\ t.pc = "fetchLogs"
                /\ r.err = CallbackError
                /\ LogsFetched(t) )
              => /\ \A tok \in DOMAIN r.m.filterCallbacks :
                       /\ Cardinality(ErrorCallsOf(calls', tok)) = 1
                       /\ \A i \in ErrorCallsOf(calls', tok) :
                             calls'[i].err = CallbackError
                 /\ DOMAIN filters' = {}
                 /\ DOMAIN filterCallbacks' = {}
                 /\ intervals' = 0
                 /\ ~streamer']_vars

\* C23: every start of polling creates a chain view with an empty window,
\* and the first head reconciled into it yields exactly one adopt entry, for
\* that head, and no retract entry, whatever earlier sessions adopted: the
\* logs of the head are dispatched as added, also when an earlier session
\* dispatched them already, and no block between the earlier view and the
\* head is dispatched.
C23_PollingStartsWithAnEmptyWindow ==
    [][/\ ( /\ ~streamer
            /\ \E s \in Subscriptions : Subscribe(s[1], s[2]) )
          => streamer' /\ window' = << >>
       /\ \A t \in BagToSet(ticks), head \in Hashes :
             ( /\ streamer
               /\ window = << >>
               /\ HeadFetched(t, head) )
             => /\ window' = << head >>
                /\ thrown' = NoError
                /\ calls' = << >>
                /\ ticks' = (ticks (-) SetToBag({t})) (+)
                            SetToBag({[t EXCEPT !.pc = "fetchLogs",
                                                !.attached = TRUE,
                                                !.plan = << [block |-> head,
                                                             retract |-> FALSE] >>]})
       /\ \A t \in BagToSet(ticks) :
             ( /\ t.attached
               /\ Len(t.plan) = 1
               /\ window = << t.plan[1].block >>
               /\ ~t.plan[1].retract
               /\ \A tok \in DOMAIN filterCallbacks : filterCallbacks[tok] = "noop"
               /\ abiDecoder
               /\ LogsFetched(t) )
             => LET logs == LogsOfBlock(t.plan[1].block)
                IN  /\ \A i \in 1..Len(calls') :
                          /\ calls'[i].err = NoError
                          /\ ~calls'[i].event.isRemoved
                          /\ calls'[i].event.log.log.blockHash = t.plan[1].block
                    /\ \A tok \in DOMAIN filters : \A i \in 1..Len(logs) :
                          matchesFilter(logs[i], filters[tok])
                              => Cardinality(EventCallsOf(calls', tok, logs[i], FALSE)) = 1]_vars

\* In the second polling session, B2 being the head in both, the first tick
\* has adopted B2 alone and is fetching its logs.
C23_Witness ==
    /\ DOMAIN filters = {2}
    /\ streamer
    /\ window = << "B2" >>
    /\ \E t \in BagToSet(ticks) :
          /\ t.pc = "fetchLogs"
          /\ t.attached
          /\ t.plan = << [block |-> "B2", retract |-> FALSE] >>

\* C24: once the owner has overridden (addr, iface) with a status other
\* than Unknown, every query(addr, iface) returns that status, whatever was
\* cached for (addr, iface) before the override.
C24_OverrideDecidesTheQuery ==
    [][\A addr \in Addrs, iface \in Interfaces :
          ( /\ overrides[addr][iface] # Unknown
            /\ Query(addr, iface) )
          => /\ ~lastCall'.reverted
             /\ lastCall'.returned = overrides[addr][iface]]_vars

\* The target at addr answers now as a contract that supports EIP165 does.
SupportsEIP165Now(addr) ==
    /\ targets[addr].kind = "Contract"
    /\ INTERFACE_ID \in targets[addr].supports
    /\ INVALID_ID \notin targets[addr].supports

\* The status of (addr, iface) by the override and the target's answers now.
StatusNow(addr, iface) ==
    IF overrides[addr][iface] # Unknown THEN overrides[addr][iface]
    ELSE IF ~SupportsEIP165Now(addr) THEN Unknown
    ELSE IF iface \in targets[addr].supports THEN Supported
    ELSE Unsupported

\* C25: after refresh(addr, iface) the cached status of (addr, iface) does
\* not depend on what was cached before: it is the override if one is set,
\* and otherwise Supported or Unsupported as the target now answers
\* supportsInterface(iface) if the target now supports EIP165, and not
\* cached if it does not.  Stated for the interfaces other than EIP165's own.
C25_RefreshForgetsTheCache ==
    [][\A addr \in Addrs, iface \in Interfaces \ {INTERFACE_ID} :
          ( /\ Refresh(addr, iface)
            /\ ~lastCall'.reverted )
          => cache'[addr][iface] = StatusNow(addr, iface)]_vars

\* C26: query(addr, iface) is idempotent in its result: with the target's
\* answers unchanged and no refresh or override in between, a second call
\* with the same arguments returns the Status the first returned, for every
\* iface, the interface id of EIP165 included.
C26_QueryIsIdempotent ==
    [][\A addr \in Addrs, iface \in Interfaces :
          ( /\ Query(addr, iface)
            /\ ~lastCall'.reverted )
          => LET again == query([cache |-> cache', overrides |-> overrides',
                                 targets |-> targets'], addr, iface)
             IN  /\ ~again.reverted
                 /\ again.ret = lastCall'.returned]_vars

\* C27: query(addr, interfaces) with at most 256 interfaces returns the bit
\* vector whose bit k is 1 exactly when query(addr, interfaces[k]) returns
\* Supported, the bit of the last of 256 interfaces included; a list of
\* more than 256 is rejected and changes nothing.  The single queries are
\* those made right after the call.
C27_BitVectorOfTheSupportedInterfaces ==
    [][lastCall'.op = "queryInterfaces"
          => LET addr == lastCall'.addr
                 interfaces == lastCall'.arg
             IN  IF Len(interfaces) > 256
                 THEN lastCall'.reverted /\ cache' = cache
                 ELSE ~lastCall'.reverted
                      => lastCall'.returned =
                            { k \in 0..(Len(interfaces) - 1) :
                                query([cache |-> cache', overrides |-> overrides',
                                       targets |-> targets'],
                                      addr, interfaces[k + 1]).ret = Supported }]_vars

\* A list of 256 interfaces was queried and the bit of the last one is set,
\* the bit of the one before it is not.
C27_Witness ==
    /\ lastCall.op = "queryInterfaces"
    /\ ~lastCall.reverted
    /\ Len(lastCall.arg) = 256
    /\ 255 \in lastCall.returned
    /\ 254 \notin lastCall.returned
    /\ 1 \in lastCall.returned
    /\ 0 \notin lastCall.returned

\* C28: the RequestQueue never holds more than MAX_QUEUE_SIZE (500)
\* entries: add returns false and leaves the queue as it is when the queue
\* holds MAX_QUEUE_SIZE entries or more, and otherwise appends the address
\* at the tail and returns true.
C28_QueueNeverExceedsItsLimit ==
    /\ [](Len(queue) <= 500)
    /\ [][\A recipientAddress \in Recipients :
             Add(recipientAddress)
             => IF Len(queue) >= 500
                THEN /\ added' = [called |-> TRUE, recipientAddress |-> recipientAddress,
                                  result |-> FALSE]
                     /\ queue' = queue
                ELSE /\ added' = [called |-> TRUE, recipientAddress |-> recipientAddress,
                                  result |-> TRUE]
                     /\ queue' = queue \o << recipientAddress >>]_vars

\* The queue holds 500 entries, the last of them accepted by add, and the
\* add made after that was refused.
C28_Witness ==
    /\ Len(queue) = 500
    /\ requests = 2
    /\ Len(accepted) = 500
    /\ added.called
    /\ ~added.result

\* C29: every address add has accepted is, the interval firing fairly,
\* eventually shifted out and handed to
\* processNextRequestFireAndForgetAsync, exactly once and in the order of
\* acceptance, at most one address per firing; a failed transfer is
\* reported, puts nothing back into the queue, is not handed over again and
\* does not keep the interval from handing over the entries behind it.
C29_AcceptedRequestsAreProcessedInOrder ==
    /\ [](accepted = processed \o queue)
    /\ [][Len(processed') <= Len(processed) + 1]_vars
    /\ [][TransferFails
             => /\ reports' = reports + 1
                /\ UNCHANGED << queue, processed, accepted >>]_vars
    /\ [][( /\ transfer.state = "reported"
            /\ queue # << >>
            /\ QueueInterval )
             => processed' = Append(processed, Head(queue))]_vars
    /\ \A n \in 1..MaxRequests :
          (Len(accepted) >= n) ~> (Len(processed) >= n /\ processed[n] = accepted[n])

\* Two addresses were accepted and both handed over in that order; the
\* transfer to the first failed and was reported, the transfer to the
\* second went through.
C29_Witness ==
    /\ accepted = << "0x1", "0x2" >>
    /\ processed = accepted
    /\ queue = << >>
    /\ reports = 1
    /\ transfer = [state |-> "sent", recipientAddress |-> "0x2"]

====
